---- MODULE Spec2Model ----
(***************************************************************************)
(* The summarization pipeline of the arXiv ETL: the sliding-window         *)
(* RateLimiter (src/arxiv_etl.py), generate_summaries_with_gemini and its  *)
(* retry loop, process_papers_for_summarization (one batch) and the        *)
(* continuous loop of process_summaries.main.                              *)
(*                                                                         *)
(* Time is counted in whole seconds.  The variable clock is the value of   *)
(* the most recent clock read; every clock read takes the time elapsed     *)
(* since the previous read as an input.  The clock never runs backwards    *)
(* and time.sleep(s) suspends for at least s seconds.                      *)
(***************************************************************************)
EXTENDS Integers, Sequences, FiniteSets, TLC

\* ------------------------------------------------------------------ bounds

\* largest max_requests_per_minute a RateLimiter is constructed with
MaxLimit == 3
\* wait_if_needed calls of one behaviour of SpecLimiter
MaxCalls == 5
\* seconds time.sleep may overrun the requested duration
MaxOversleep == 1

\* seconds between two clock reads of SpecLimiter (around the window's edges)
Delays == {0, 1, 30, 59, 60, 61}

\* papers waiting for a summary when process_summaries.main starts
MaxItems == 3
\* largest --limit (batch size) of a run
MaxBatch == 3
\* the run is followed until the clock passes MaxClock seconds
MaxClock == 150
\* the limiter's limit in the runs of Spec, scaled down from the 15 of
\* ArxivETL.__init__ so that a batch of MaxItems papers can fill the window
ScaledLimit == 2

\* threads that share one RateLimiter in SpecThreads
MaxThreads == 2
\* wait_if_needed calls of one behaviour of SpecThreads, all threads together
MaxThreadCalls == 3
\* seconds between a thread's clock read and the clock read before it
ThreadDelays == {0, 30, 60}

\* seconds between two clock reads of a run of Spec: the work in between
\* takes no time to speak of, or a whole minute
RunDelays == {0, 60}

\* ------------------------------------------------------- program constants

\* the rolling window of RateLimiter, in seconds
Window == 60
\* max_retries, as process_papers_for_summarization passes it
MaxRetries == 2
\* the batch cadence of process_summaries.main, in seconds
BatchInterval == 60

\* what one generate_content call of the generative service does: a text that
\* parse_gemini_response turns into the six fields, an empty text, a text
\* that parse_gemini_response rejects, or an exception
Responses == {"valid", "empty", "garbled", "raise"}
\* the papers of the backlog
Items == 1..MaxItems
\* the threads that call wait_if_needed on one RateLimiter
Threads == 1..MaxThreads

VARIABLES
    clock,                    \* value of the most recent clock read
    max_requests_per_minute,  \* RateLimiter.max_requests_per_minute
    requests_made,            \* RateLimiter.requests_made
    granted,                  \* the timestamps wait_if_needed has recorded
    last_wait,                \* seconds the latest wait_if_needed asked to sleep
    pc,                       \* where the run of process_summaries.main stands
    exit_path,                \* how main left: which return or break it took
    gemini_enabled,           \* ArxivETL.gemini_enabled
    single_batch,             \* args.single_batch
    batch_size,               \* args.limit
    total_processed,          \* main: total_processed
    batch_num,                \* main: batch_num
    batch_start_time,         \* main: batch_start_time
    pending,                  \* the rows of the view v_papers_needing_summaries
    sink,                     \* the rows inserted into summary_papers
    papers,                   \* papers_response.data of the running batch
    idx,                      \* the loop index i of the running batch
    processed_count,          \* process_papers_for_summarization: processed_count
    batch_return,             \* what the latest batch returned
    visited,                  \* the papers the loop body was entered for, this batch
    escaped,                  \* the functions an exception has propagated out of
    pdf_text,                 \* the text passed on for the current paper: "text", "" or "unset"
    responses,                \* what the service did at each call of the current invocation
    attempt,                  \* generate_summaries_with_gemini: attempt
    admissions,               \* wait_if_needed calls of the current invocation
    calls,                    \* generate_content calls of the current invocation
    summaries,                \* what the invocation for the current paper returned
    inserts,                  \* the inserts tried for the current paper, and what each did
    interrupted,              \* whether a KeyboardInterrupt has been delivered to the run
    batch_duration,           \* main: batch_duration, as the latest pacing computed it
    wait_time,                \* main: wait_time, as the latest pacing computed it
    store_stub,               \* whether the store's queries are played by a scripted stub
    lock,                     \* RateLimiter.lock: the thread that holds it, 0 when free
    tpc,                      \* per thread: where its wait_if_needed call stands
    tnow,                     \* per thread: wait_if_needed's local now
    twait,                    \* per thread: wait_if_needed's local wait_time
    tslept,                   \* per thread: the sleeps of its current call
    tseen,                    \* per thread: requests_made as its latest step left it
    field_index,              \* parse_gemini_response: the field of `patterns` being extracted
    regex_index,              \* parse_gemini_response: the next pattern of the list to try
    extracted_content,        \* parse_gemini_response: extracted_content (<< >> for None)
    parsed,                   \* parse_gemini_response: the dict summaries, in insertion order
    parse_phase,              \* parse_gemini_response: which loop it is in
    parse_result,             \* parse_gemini_response: what it returned, once it has
    response_text,            \* the text handed to parse_gemini_response, as tokens
    bodies,                   \* the six field bodies the response text was written from
    absent,                   \* the field whose section the text lacks (0: none)
    io_form,                  \* how the text carries the intermediate overview
    returned,                 \* whether parse_gemini_response returned None or a mapping
    fields_out                \* the mapping returned: the six values in field order

limiterVars == <<clock, max_requests_per_minute, requests_made, granted, last_wait>>

mainVars == <<exit_path, gemini_enabled, single_batch, batch_size, total_processed,
              batch_num, batch_start_time>>

storeVars == <<pending, sink>>

batchVars == <<papers, idx, processed_count, batch_return, visited, escaped>>

genVars == <<pdf_text, responses, attempt, admissions, calls, summaries, inserts>>

\* what the steps of an uninterrupted run leave alone
paceVars == <<batch_duration, wait_time>>

threadVars == <<lock, tpc, tnow, twait, tslept, tseen>>

\* what no step of a run of main touches
parseVars == <<field_index, regex_index, extracted_content, parsed, parse_phase,
               parse_result>>

textVars == <<response_text, bodies, absent, io_form, returned, fields_out>>

apartVars == <<threadVars, parseVars, textVars>>

asideVars == <<interrupted, paceVars, store_stub, apartVars>>

vars == <<limiterVars, pc, mainVars, storeVars, batchVars, genVars, asideVars>>

\* ------------------------------------------------------------- RateLimiter

RECURSIVE MinOf(_)
\* min(self.requests_made)
MinOf(s) ==
    IF Len(s) = 1 THEN s[1]
    ELSE LET m == MinOf(Tail(s)) IN IF s[1] <= m THEN s[1] ELSE m

\* a pruning that drops nothing
PruneNothing(reqs, now) == reqs

\* a pruning that keeps a timestamp exactly 60 seconds old
PruneKeepsSixty(reqs, now) == SelectSeq(reqs, LAMBDA t : now - t <= Window)

\* [t for t in requests_made if (now - t).total_seconds() < 60]
Prune(reqs, now) == SelectSeq(reqs, LAMBDA t : now - t < Window)

\* a wait computed one second short
WaitTimeShort(reqs, now) == Window - 1 - (now - MinOf(reqs))

\* wait_time = 60 - (now - oldest_request).total_seconds()
WaitTime(reqs, now) == Window - (now - MinOf(reqs))

\* RateLimiter.__init__
LimiterInit(limit) ==
    /\ max_requests_per_minute = limit
    /\ requests_made = << >>
    /\ granted = << >>
    /\ last_wait = 0

\* One call of wait_if_needed, made `elapsed` seconds after the previous clock
\* read; if it sleeps, the sleep overruns by `over` seconds.
wait_if_needed(elapsed, over) ==
    LET now      == clock + elapsed
        pruned   == Prune(requests_made, now)
        atLimit  == Len(pruned) >= max_requests_per_minute
        wait     == IF atLimit THEN WaitTime(pruned, now) ELSE 0
        sleeps   == atLimit /\ wait > 0
        now2     == IF sleeps THEN now + wait + over ELSE now
        pruned2  == IF sleeps THEN Prune(pruned, now2) ELSE pruned
    IN  /\ requests_made' = Append(pruned2, now2)
        /\ clock' = now2
        /\ last_wait' = (IF sleeps THEN wait ELSE 0)
        /\ UNCHANGED max_requests_per_minute

\* ------------------------------------------------ SpecLimiter: the limiter alone

\* no thread is inside wait_if_needed and the lock is free
ThreadsIdle ==
    /\ lock = 0
    /\ tpc = [t \in Threads |-> "idle"]
    /\ tnow = [t \in Threads |-> 0]
    /\ twait = [t \in Threads |-> 0]
    /\ tslept = [t \in Threads |-> 0]
    /\ tseen = [t \in Threads |-> << >>]

\* parse_gemini_response is not running
NoParse ==
    /\ field_index = 0
    /\ regex_index = 0
    /\ extracted_content = << >>
    /\ parsed = << >>
    /\ parse_phase = "idle"
    /\ parse_result = "idle"

\* no response text is under study
NoText ==
    /\ response_text = << >>
    /\ bodies = << >>
    /\ absent = 0
    /\ io_form = "header"
    /\ returned = "idle"
    /\ fields_out = << >>

\* summary_papers with no row: per paper, the completed rows and the error rows
NoRows == [p \in Items |-> [completed |-> 0, error |-> 0]]

\* the locals of the loop body outside an invocation of
\* generate_summaries_with_gemini
NoInvocation ==
    /\ pdf_text = "unset"
    /\ responses = << >>
    /\ attempt = 0
    /\ admissions = 0
    /\ calls = 0
    /\ summaries = "unset"
    /\ inserts = << >>

\* no run of main: the limiter is used on its own
NoRun ==
    /\ pc = "no_run"
    /\ exit_path = "none"
    /\ gemini_enabled = TRUE
    /\ single_batch = FALSE
    /\ batch_size = 1
    /\ total_processed = 0
    /\ batch_num = 1
    /\ batch_start_time = 0
    /\ pending = << >>
    /\ sink = NoRows
    /\ papers = << >>
    /\ idx = 0
    /\ processed_count = 0
    /\ batch_return = 0
    /\ visited = << >>
    /\ escaped = {}
    /\ NoInvocation
    /\ interrupted = FALSE
    /\ batch_duration = 0
    /\ wait_time = 0
    /\ store_stub = FALSE
    /\ ThreadsIdle

InitLimiter ==
    /\ clock = 0
    /\ \E limit \in 1..MaxLimit : LimiterInit(limit)
    /\ NoRun
    /\ NoParse
    /\ NoText

Admit ==
    /\ Len(granted) < MaxCalls
    /\ \E elapsed \in Delays, over \in 0..MaxOversleep :
           wait_if_needed(elapsed, over)
    /\ granted' = Append(granted, clock')
    /\ UNCHANGED <<pc, mainVars, storeVars, batchVars, genVars, asideVars>>

NextLimiter == Admit

SpecLimiter == InitLimiter /\ [][NextLimiter]_vars

\* ------------------------- SpecThreads: several threads on one RateLimiter

\* a lock that lets every caller in
AlwaysFree(holder) == TRUE

\* threading.Lock: `with self.lock:` enters only while no thread holds it
LockFree(holder) == holder = 0

\* a lock that its holder keeps on leaving the with block
NeverReleased(t) == t

\* the end of the `with self.lock:` block releases the lock
Released(t) == 0

\* the variables of a run of main, which no thread step touches
runVars == <<pc, mainVars, storeVars, batchVars, genVars, interrupted, paceVars,
             store_stub>>

\* a thread calls wait_if_needed and comes to `with self.lock:`
T_Call(t) ==
    /\ tpc[t] = "idle"
    /\ Len(granted) + Cardinality({u \in Threads : tpc[u] # "idle"}) < MaxThreadCalls
    /\ tpc' = [tpc EXCEPT ![t] = "acquire"]
    /\ tslept' = [tslept EXCEPT ![t] = 0]
    /\ UNCHANGED <<limiterVars, lock, tnow, twait, tseen>>
    /\ UNCHANGED <<runVars, parseVars, textVars>>

\* the thread acquires the lock
T_Acquire(t) ==
    /\ tpc[t] = "acquire"
    /\ LockFree(lock)
    /\ lock' = t
    /\ tpc' = [tpc EXCEPT ![t] = "prune"]
    /\ tseen' = [tseen EXCEPT ![t] = requests_made]
    /\ UNCHANGED <<limiterVars, tnow, twait, tslept>>
    /\ UNCHANGED <<runVars, parseVars, textVars>>

\* now = datetime.now(), the prune, and the test of the limit: on to the
\* sleep when the window is full and the wait positive, else to the append
T_Prune(t) ==
    /\ tpc[t] = "prune"
    /\ \E elapsed \in ThreadDelays :
        LET now     == clock + elapsed
            pruned  == Prune(requests_made, now)
            atLimit == Len(pruned) >= max_requests_per_minute
            wait    == IF atLimit THEN WaitTime(pruned, now) ELSE 0
        IN  /\ clock' = now
            /\ tnow' = [tnow EXCEPT ![t] = now]
            /\ requests_made' = pruned
            /\ tseen' = [tseen EXCEPT ![t] = pruned]
            /\ twait' = [twait EXCEPT ![t] = IF wait > 0 THEN wait ELSE 0]
            /\ tpc' = [tpc EXCEPT ![t] = IF atLimit /\ wait > 0 THEN "sleep"
                                         ELSE "append"]
    /\ UNCHANGED <<max_requests_per_minute, granted, last_wait, lock, tslept>>
    /\ UNCHANGED <<runVars, parseVars, textVars>>

\* time.sleep(wait_time) returns, no earlier than asked; now is read again
\* and the list pruned again
T_Wake(t) ==
    /\ tpc[t] = "sleep"
    /\ \E over \in 0..MaxOversleep :
        LET due == tnow[t] + twait[t]
            now == (IF clock > due THEN clock ELSE due) + over
        IN  /\ clock' = now
            /\ tnow' = [tnow EXCEPT ![t] = now]
            /\ requests_made' = Prune(requests_made, now)
            /\ tseen' = [tseen EXCEPT ![t] = Prune(requests_made, now)]
    /\ tslept' = [tslept EXCEPT ![t] = @ + 1]
    /\ tpc' = [tpc EXCEPT ![t] = "append"]
    /\ UNCHANGED <<max_requests_per_minute, granted, last_wait, lock, twait>>
    /\ UNCHANGED <<runVars, parseVars, textVars>>

\* self.requests_made.append(now), and the with block is left
T_Append(t) ==
    /\ tpc[t] = "append"
    /\ requests_made' = Append(requests_made, tnow[t])
    /\ granted' = Append(granted, tnow[t])
    /\ last_wait' = twait[t]
    /\ lock' = Released(t)
    /\ tpc' = [tpc EXCEPT ![t] = "idle"]
    /\ tseen' = [tseen EXCEPT ![t] = << >>]
    /\ twait' = [twait EXCEPT ![t] = 0]
    /\ UNCHANGED <<clock, max_requests_per_minute, tnow, tslept>>
    /\ UNCHANGED <<runVars, parseVars, textVars>>

InitThreads ==
    /\ clock = 0
    /\ \E limit \in 1..ScaledLimit : LimiterInit(limit)
    /\ NoRun
    /\ NoParse
    /\ NoText

NextThreads ==
    \/ \E t \in Threads : T_Call(t)
    \/ \E t \in Threads : T_Acquire(t)
    \/ \E t \in Threads : T_Prune(t)
    \/ \E t \in Threads : T_Wake(t)
    \/ \E t \in Threads : T_Append(t)

SpecThreads == InitThreads /\ [][NextThreads]_vars

\* the scheduler lets every thread inside the limiter take its next step,
\* and the lock is fair: a thread that finds it free again and again gets it
ThreadFairness ==
    \A t \in Threads :
        /\ WF_vars(T_Prune(t) \/ T_Wake(t) \/ T_Append(t))
        /\ SF_vars(T_Acquire(t))

SpecThreadsFair == SpecThreads /\ ThreadFairness

\* ------------------------------- SpecParse: parse_gemini_response by itself

\* the keys of `patterns`, in the order the dict is iterated
FieldNames == <<"beginner_title", "intermediate_title", "beginner_overview",
                "intermediate_overview", "beginner_summary", "intermediate_summary">>

\* how many patterns the list of each field holds
PatternCount == <<4, 4, 4, 6, 4, 3>>

\* alternative_patterns, tried for intermediate_overview only
AlternativeCount == 3

\* the length the final validation asks of a value
MinLength == 10

\* A piece of text, as far as the parser looks at it: whitespace in front,
\* `core` characters from the first to the last that is not whitespace, and
\* whitespace behind.  Lengths are taken around MinLength.
Texts == [lead : 0..1, core : {0, MinLength - 1, MinLength, MinLength + 1},
          trail : 0..1]

\* what re.search can give for one pattern: no match, or group(1)
Matches == {<< >>} \cup {<<x>> : x \in Texts}

\* str.strip()
Strip(x) == [lead |-> 0, core |-> x.core, trail |-> 0]

\* len(x)
LenOf(x) == x.lead + x.core + x.trail

\* the truth value of an Optional[str] held as << >> or <<x>>
Truthy(c) == c # << >> /\ LenOf(c[1]) > 0

\* `if extracted_content and len(extracted_content) > 10: break`
ValidContent(c) == Truthy(c) /\ LenOf(c[1]) > 10

\* a final validation that lets every value through
NeverTooShort(x) == FALSE

\* final validation: `not value or len(value) < 10`
TooShort(x) == LenOf(x) = 0 \/ LenOf(x) < MinLength

\* parse_gemini_response, `except Exception`: log and return None
ParseExcept == "none"

\* the call starts: nothing extracted yet, the first field's first pattern next
InitParse ==
    /\ clock = 0
    /\ LimiterInit(ScaledLimit)
    /\ NoRun
    /\ field_index = 1
    /\ regex_index = 1
    /\ extracted_content = << >>
    /\ parsed = << >>
    /\ parse_phase = "patterns"
    /\ parse_result = "running"
    /\ NoText

\* one round of `for regex_pattern in regex_list`: the search, and on a match
\* the stripped group and the test that breaks out of the loop (any
\* statement of the try block may raise: the except clause returns None)
TryPattern ==
    /\ parse_result = "running"
    /\ parse_phase = "patterns"
    /\ \E match \in Matches, raises \in BOOLEAN :
        LET content == IF match # << >> THEN <<Strip(match[1])>>
                       ELSE extracted_content
            last    == regex_index = PatternCount[field_index]
            breaks  == match # << >> /\ ValidContent(content)
        IN  IF raises
            THEN /\ parse_result' = ParseExcept
                 /\ UNCHANGED <<field_index, regex_index, extracted_content,
                                parsed, parse_phase>>
            ELSE /\ extracted_content' = content
                 /\ regex_index' = IF breaks \/ last THEN 1 ELSE regex_index + 1
                 /\ parse_phase' = IF breaks \/ last THEN "store" ELSE "patterns"
                 /\ UNCHANGED <<field_index, parsed, parse_result>>
    /\ UNCHANGED <<limiterVars, runVars, threadVars, textVars>>

\* one round of `for alt_pattern in alternative_patterns`: as above, with the
\* clean-up of a capture that starts with a header
TryAlternative ==
    /\ parse_result = "running"
    /\ parse_phase = "alternatives"
    /\ \E match \in Matches, starts_with_header \in BOOLEAN,
          content_match \in Matches, raises \in BOOLEAN :
        LET stripped == IF match # << >> THEN <<Strip(match[1])>>
                        ELSE extracted_content
            content  == IF match # << >> /\ starts_with_header
                           /\ content_match # << >>
                        THEN <<Strip(content_match[1])>> ELSE stripped
            last     == regex_index = AlternativeCount
            breaks   == match # << >> /\ ValidContent(content)
        IN  IF raises
            THEN /\ parse_result' = ParseExcept
                 /\ UNCHANGED <<field_index, regex_index, extracted_content,
                                parsed, parse_phase>>
            ELSE /\ extracted_content' = content
                 /\ regex_index' = IF breaks \/ last THEN 1 ELSE regex_index + 1
                 /\ parse_phase' = IF breaks \/ last THEN "checked" ELSE "alternatives"
                 /\ UNCHANGED <<field_index, parsed, parse_result>>
    /\ UNCHANGED <<limiterVars, runVars, threadVars, textVars>>

\* after the pattern loops: the special handling sets in for an
\* intermediate_overview with nothing extracted; a field with nothing
\* extracted ends the call with None; else the field is put into summaries
StoreField ==
    /\ parse_result = "running"
    /\ parse_phase \in {"store", "checked"}
    /\ IF ~Truthy(extracted_content) /\ parse_phase = "store"
          /\ FieldNames[field_index] = "intermediate_overview"
       THEN /\ parse_phase' = "alternatives"
            /\ UNCHANGED <<field_index, regex_index, extracted_content, parsed,
                           parse_result>>
       ELSE IF ~Truthy(extracted_content)
       THEN /\ parse_result' = "none"
            /\ UNCHANGED <<field_index, regex_index, extracted_content, parsed,
                           parse_phase>>
       ELSE /\ parsed' = Append(parsed, extracted_content[1])
            /\ extracted_content' = << >>
            /\ regex_index' = 1
            /\ field_index' = IF field_index < Len(FieldNames) THEN field_index + 1
                              ELSE field_index
            /\ parse_phase' = IF field_index < Len(FieldNames) THEN "patterns"
                              ELSE "validate"
            /\ UNCHANGED parse_result
    /\ UNCHANGED <<limiterVars, runVars, threadVars, textVars>>

\* the final validation and the return of summaries
Validate ==
    /\ parse_result = "running"
    /\ parse_phase = "validate"
    /\ parse_result' = IF \E k \in 1..Len(parsed) : TooShort(parsed[k])
                       THEN "none" ELSE "mapping"
    /\ UNCHANGED <<field_index, regex_index, extracted_content, parsed, parse_phase>>
    /\ UNCHANGED <<limiterVars, runVars, threadVars, textVars>>

NextParse ==
    \/ TryPattern
    \/ TryAlternative
    \/ StoreField
    \/ Validate

SpecParse == InitParse /\ [][NextParse]_vars

\* ---------------- SpecExtract: parse_gemini_response on a response text

\* A response text is a sequence of tokens: a section header, a newline, a
\* space, or a word.  Words hold no whitespace and no header.
Fields == 1..6

\* the headers the prompt asks for, in field order
HeaderOf == <<"BEGINNER_TITLE:", "INTERMEDIATE_TITLE:", "BEGINNER_OVERVIEW:",
              "INTERMEDIATE_OVERVIEW:", "BEGINNER_SUMMARY:",
              "INTERMEDIATE_SUMMARY:">>

\* the other spelling of the intermediate-overview header that the patterns
\* know ('INTERMEDIATE OVERVIEW:', and with IGNORECASE 'Intermediate Overview:')
AltHeader == "INTERMEDIATE OVERVIEW:"

Headers == {HeaderOf[f] : f \in Fields} \cup {AltHeader}

\* the headers that the prefix INTERMEDIATE matches
Intermediates == {HeaderOf[2], HeaderOf[4], HeaderOf[6], AltHeader}

\* what \s matches
Whitespace == {"\n", " "}

\* the words of the field bodies: per field a word of 4 characters, one of
\* 10, and two of 12
ShortWord == <<"s1", "s2", "s3", "s4", "s5", "s6">>
TenWord == <<"t1", "t2", "t3", "t4", "t5", "t6">>
LongWord == <<"L1", "L2", "L3", "L4", "L5", "L6">>
MoreWord == <<"M1", "M2", "M3", "M4", "M5", "M6">>

\* len() of a token; of a header only that it exceeds 10 matters (the
\* shortest, BEGINNER_TITLE:, has 15 characters)
TokLen(tok) ==
    IF tok \in Whitespace THEN 1
    ELSE IF tok \in {ShortWord[f] : f \in Fields} THEN 4
    ELSE IF tok \in {TenWord[f] : f \in Fields} THEN 10
    ELSE IF tok \in Headers THEN 15
    ELSE 12

RECURSIVE TLen(_)
\* len() of a text
TLen(text) == IF text = << >> THEN 0 ELSE TokLen(Head(text)) + TLen(Tail(text))

RECURSIVE LStrip(_)
\* str.lstrip()
LStrip(text) ==
    IF text = << >> THEN << >>
    ELSE IF Head(text) \in Whitespace THEN LStrip(Tail(text))
    ELSE text

RECURSIVE RStrip(_)
\* str.rstrip()
RStrip(text) ==
    IF text = << >> THEN << >>
    ELSE IF text[Len(text)] \in Whitespace THEN RStrip(SubSeq(text, 1, Len(text) - 1))
    ELSE text

\* str.strip() of a text
TStrip(text) == RStrip(LStrip(text))

\* the token at position e; past the end of the text there is none
TokAt(text, e) == IF e >= 1 /\ e <= Len(text) THEN text[e] ELSE "(end)"

\* the first position from i on that \s* cannot move past
NextNonWs(text, i) ==
    LET stops == {j \in i..(Len(text) + 1) : TokAt(text, j) \notin Whitespace}
    IN  CHOOSE j \in stops : \A k \in stops : j <= k

\* the lookaheads and right boundaries of the patterns
NlWsHdr(H) == [kind |-> "nl_ws_hdr", hdrs |-> H]   \* \n\s*HEADER
NlHdr(H) == [kind |-> "nl_hdr", hdrs |-> H]        \* \nHEADER
AtHdr(H) == [kind |-> "hdr", hdrs |-> H]           \* HEADER
BlankLine == [kind |-> "blank", hdrs |-> {}]       \* \n\n
LineEnd == [kind |-> "nl", hdrs |-> {}]            \* \n
TextEnd == [kind |-> "end", hdrs |-> {}]           \* $, and the end that (.*) runs to

\* whether boundary b matches at position e of the text
BoundaryAt(text, e, b) ==
    CASE b.kind = "end" -> e = Len(text) + 1
      [] b.kind = "nl" -> TokAt(text, e) = "\n"
      [] b.kind = "blank" -> TokAt(text, e) = "\n" /\ TokAt(text, e + 1) = "\n"
      [] b.kind = "hdr" -> TokAt(text, e) \in b.hdrs
      [] b.kind = "nl_hdr" -> TokAt(text, e) = "\n" /\ TokAt(text, e + 1) \in b.hdrs
      [] b.kind = "nl_ws_hdr" ->
            TokAt(text, e) = "\n" /\ TokAt(text, NextNonWs(text, e + 1)) \in b.hdrs

\* a pattern HEADER\s*(.*?)BOUNDARY: the spellings of the header it starts
\* with, whether `.*?\n` stands between the header and \s* (the positional
\* pattern), and the alternatives of its boundary
Pattern(heads, bounds) == [heads |-> heads, skip_line |-> FALSE, bounds |-> bounds]

\* the dict `patterns`, field by field
Patterns ==
    << \* beginner_title
       << Pattern({HeaderOf[1]}, {NlWsHdr({HeaderOf[2]}), TextEnd}),
          Pattern({HeaderOf[1]}, {BlankLine, NlHdr(Intermediates)}),
          Pattern({HeaderOf[1]}, {AtHdr({HeaderOf[2]})}),
          Pattern({HeaderOf[1]}, {LineEnd}) >>,
       \* intermediate_title
       << Pattern({HeaderOf[2]}, {NlWsHdr({HeaderOf[3]}), TextEnd}),
          Pattern({HeaderOf[2]}, {BlankLine, NlHdr({HeaderOf[3]})}),
          Pattern({HeaderOf[2]}, {AtHdr({HeaderOf[3]})}),
          Pattern({HeaderOf[2]}, {LineEnd}) >>,
       \* beginner_overview
       << Pattern({HeaderOf[3]}, {NlWsHdr({HeaderOf[4]}), TextEnd}),
          Pattern({HeaderOf[3]}, {BlankLine, NlHdr({HeaderOf[4]})}),
          Pattern({HeaderOf[3]}, {AtHdr({HeaderOf[4]})}),
          Pattern({HeaderOf[3]}, {LineEnd}) >>,
       \* intermediate_overview
       << Pattern({HeaderOf[4]}, {NlWsHdr({HeaderOf[5]}), TextEnd}),
          Pattern({HeaderOf[4]}, {BlankLine, NlHdr({HeaderOf[5]})}),
          Pattern({HeaderOf[4]}, {AtHdr({HeaderOf[5]})}),
          Pattern({HeaderOf[4]}, {LineEnd}),
          Pattern({AltHeader}, {NlWsHdr({HeaderOf[5]}), TextEnd}),
          Pattern({AltHeader}, {NlWsHdr({HeaderOf[5]}), TextEnd}) >>,
       \* beginner_summary
       << Pattern({HeaderOf[5]}, {NlWsHdr({HeaderOf[6]}), TextEnd}),
          Pattern({HeaderOf[5]}, {BlankLine, NlHdr({HeaderOf[6]})}),
          Pattern({HeaderOf[5]}, {AtHdr({HeaderOf[6]})}),
          Pattern({HeaderOf[5]}, {NlWsHdr(Intermediates)}) >>,
       \* intermediate_summary
       << Pattern({HeaderOf[6]}, {BlankLine, TextEnd}),
          Pattern({HeaderOf[6]}, {TextEnd}),
          Pattern({HeaderOf[6]}, {TextEnd}) >> >>

\* alternative_patterns without the third, which looks between the headers
\* BEGINNER_OVERVIEW and BEGINNER_SUMMARY
HeaderAlternativesOnly ==
    << Pattern({HeaderOf[4], AltHeader}, {NlWsHdr({HeaderOf[5]}), TextEnd}),
       Pattern({HeaderOf[4], AltHeader}, {LineEnd}) >>

\* alternative_patterns
AlternativePatterns ==
    << Pattern({HeaderOf[4], AltHeader}, {NlWsHdr({HeaderOf[5]}), TextEnd}),
       Pattern({HeaderOf[4], AltHeader}, {LineEnd}),
       [heads |-> {HeaderOf[3]}, skip_line |-> TRUE,
        bounds |-> {NlWsHdr({HeaderOf[5]})}] >>

\* the pattern of the clean-up: (?:...OVERVIEW):\s*(.*)
CleanUpPattern == Pattern({HeaderOf[4], AltHeader}, {TextEnd})

\* the least and the greatest of a non-empty set of positions
Least(S) == CHOOSE x \in S : \A y \in S : x <= y
Greatest(S) == CHOOSE x \in S : \A y \in S : x >= y

\* the positions from s on where the boundary of pat matches
Ends(text, pat, s) ==
    {e \in s..(Len(text) + 1) : \E b \in pat.bounds : BoundaryAt(text, e, b)}

\* \s*(.*?)BOUNDARY from position a on: \s* gives back whitespace only when
\* no boundary can be found otherwise; the capture is the shortest there is.
\* The result is the set of the one capture span <<s, e>>, or empty.
Spans(text, pat, a) ==
    LET starts == {s \in a..NextNonWs(text, a) : Ends(text, pat, s) # {}}
    IN  IF starts = {} THEN {}
        ELSE LET s == Greatest(starts) IN {<<s, Least(Ends(text, pat, s))>>}

\* where \s* can start once the header at position i is matched: right after
\* it, or (positional pattern) after any later newline, nearest first
Anchors(text, pat, i) ==
    IF pat.skip_line THEN {j + 1 : j \in {k \in (i + 1)..Len(text) : text[k] = "\n"}}
    ELSE {i + 1}

\* re.search(pattern, text): the leftmost header that leads to a match, and
\* group(1) of that match; << >> for no match, <<capture>> for a match
Search(text, pat) ==
    LET heads == {i \in 1..Len(text) :
                    /\ text[i] \in pat.heads
                    /\ \E a \in Anchors(text, pat, i) : Spans(text, pat, a) # {}}
    IN  IF heads = {} THEN << >>
        ELSE LET i    == Least(heads)
                 a    == Least({b \in Anchors(text, pat, i) : Spans(text, pat, b) # {}})
                 span == CHOOSE sp \in Spans(text, pat, a) : TRUE
             IN  <<SubSeq(text, span[1], span[2] - 1)>>

\* the truth value of extracted_content: neither None nor ''
HasContent(c) == c # << >> /\ c[1] # << >>

\* `if extracted_content and len(extracted_content) > 10`
BreaksLoop(c) == HasContent(c) /\ TLen(c[1]) > MinLength

RECURSIVE PatternLoop(_, _, _, _)
\* `for regex_pattern in regex_list` from pattern k on, extracted_content
\* being c so far
PatternLoop(text, pats, k, c) ==
    IF k > Len(pats) THEN c
    ELSE LET match == Search(text, pats[k])
             found == IF match = << >> THEN c ELSE <<TStrip(match[1])>>
         IN  IF match # << >> /\ BreaksLoop(found) THEN found
             ELSE PatternLoop(text, pats, k + 1, found)

\* the clean-up of a capture that starts with INTERMEDIATE
CleanedUp(content) ==
    IF content # << >> /\ Head(content) \in Intermediates
    THEN LET content_match == Search(content, CleanUpPattern)
         IN  IF content_match = << >> THEN content ELSE TStrip(content_match[1])
    ELSE content

RECURSIVE AlternativeLoop(_, _, _)
\* `for alt_pattern in alternative_patterns` from pattern k on
AlternativeLoop(text, k, c) ==
    IF k > Len(AlternativePatterns) THEN c
    ELSE LET match == Search(text, AlternativePatterns[k])
             found == IF match = << >> THEN c ELSE <<CleanedUp(TStrip(match[1]))>>
         IN  IF match # << >> /\ BreaksLoop(found) THEN found
             ELSE AlternativeLoop(text, k + 1, found)

\* extracted_content of field f after its loops
Extracted(text, f) ==
    LET c == PatternLoop(text, Patterns[f], 1, << >>)
    IN  IF ~HasContent(c) /\ FieldNames[f] = "intermediate_overview"
        THEN AlternativeLoop(text, 1, c)
        ELSE c

\* final validation: `not value or len(value) < 10`
Rejected(value) == value = << >> \/ TLen(value) < MinLength

\* extracted_content of the six fields
ExtractedAll(text) == [f \in Fields |-> Extracted(text, f)]

\* a call that leaves out a field without content and returns the others
ReturnedPartial(ext) ==
    IF \E f \in Fields : HasContent(ext[f]) /\ Rejected(ext[f][1]) THEN << >>
    ELSE [f \in Fields |-> IF HasContent(ext[f]) THEN ext[f][1] ELSE << >>]

\* what the call returns, given extracted_content of the six fields: None
\* (<< >>) when a field has no content or a value fails the final
\* validation, else the six values
Returned(ext) ==
    IF \E f \in Fields : ~HasContent(ext[f]) THEN << >>
    ELSE IF \E f \in Fields : Rejected(ext[f][1]) THEN << >>
    ELSE [f \in Fields |-> ext[f][1]]

\* parse_gemini_response(response_text)
ParseText(raw) == Returned(ExtractedAll(TStrip(raw)))

\* the shapes of a field body: one long word; a word of 4 characters; a word
\* of exactly 10; two lines; two paragraphs; a long word with a space behind
Shapes == {"long", "short", "ten", "lines", "paragraphs", "padded"}

\* the body of field f in a given shape
Body(f, shape) ==
    CASE shape = "long" -> <<LongWord[f]>>
      [] shape = "short" -> <<ShortWord[f]>>
      [] shape = "ten" -> <<TenWord[f]>>
      [] shape = "lines" -> <<LongWord[f], "\n", MoreWord[f]>>
      [] shape = "paragraphs" -> <<LongWord[f], "\n", "\n", MoreWord[f]>>
      [] shape = "padded" -> <<LongWord[f], " ">>

\* one section of the response: header, a space, the body; the intermediate
\* overview may stand under the other spelling or under no header at all
Section(f, body, form) ==
    IF f = 4 /\ form = "positional" THEN body
    ELSE IF f = 4 /\ form = "relabelled" THEN <<AltHeader, " ">> \o body
    ELSE <<HeaderOf[f], " ">> \o body

RECURSIVE Render(_, _, _, _, _)
\* the response text from field f on: the sections in the prompt's order,
\* `sep` between two sections, the section of field `miss` left out
Render(f, bs, miss, form, sep) ==
    IF f > 6 THEN << >>
    ELSE LET rest == Render(f + 1, bs, miss, form, sep)
         IN  IF f = miss THEN rest
             ELSE IF rest = << >> THEN Section(f, bs[f], form)
             ELSE Section(f, bs[f], form) \o sep \o rest

\* The response texts under study: the prompt's format with sections parted
\* by a blank line or by a newline, up to two of the bodies in any of the
\* shapes and the others one long word, possibly one section absent, the intermediate
\* overview possibly relabelled or left without its header.
InitExtract ==
    /\ clock = 0
    /\ LimiterInit(ScaledLimit)
    /\ NoRun
    /\ NoParse
    /\ \E f1 \in Fields, f2 \in Fields, shape1 \in Shapes, shape2 \in Shapes :
          bodies = [f \in Fields |-> IF f = f1 THEN Body(f, shape1)
                                     ELSE IF f = f2 THEN Body(f, shape2)
                                     ELSE Body(f, "long")]
    /\ absent \in 0..6
    /\ io_form \in {"header", "relabelled", "positional"}
    /\ absent # 0 => io_form = "header"
    /\ \E sep \in {<<"\n">>, <<"\n", "\n">>} :
          response_text = Render(1, bodies, absent, io_form, sep)
    /\ returned = "pending"
    /\ fields_out = << >>

\* the call parse_gemini_response(response_text)
ExtractFields ==
    /\ returned = "pending"
    /\ fields_out' = ParseText(response_text)
    /\ returned' = IF fields_out' = << >> THEN "none" ELSE "mapping"
    /\ UNCHANGED <<response_text, bodies, absent, io_form>>
    /\ UNCHANGED <<limiterVars, runVars, threadVars, parseVars>>

NextExtract == ExtractFields

SpecExtract == InitExtract /\ [][NextExtract]_vars

\* ------------------------------------------------------ the persistence store

RECURSIVE Without(_, _)
\* the view's rows once paper p has a completed row in summary_papers
Without(s, p) ==
    IF s = << >> THEN << >>
    ELSE IF Head(s) = p THEN Without(Tail(s), p)
    ELSE <<Head(s)>> \o Without(Tail(s), p)

\* summary_papers after one more row for paper p
Inserted(rows, p, status) ==
    IF status = "completed"
    THEN [rows EXCEPT ![p].completed = @ + 1]
    ELSE [rows EXCEPT ![p].error = @ + 1]

\* the same query put to the table of all papers instead of the view: papers
\* that already have their summary come back too
QueryAllPapers(rows, limit) ==
    [k \in 1..(IF MaxItems < limit THEN MaxItems ELSE limit) |-> k]

\* .select('*').limit(limit): the first `limit` rows of the view
Limit(rows, limit) == SubSeq(rows, 1, IF Len(rows) < limit THEN Len(rows) ELSE limit)

\* the rows a scripted pending-work source returns to the batches: three
\* papers to the first batch, none after
StubRows == IF batch_num = 1 THEN <<1, 2, 3>> ELSE << >>

\* the count a scripted remaining-count check reports: 0 once the second
\* batch is over, the backlog before
StubCount == IF batch_num >= 2 THEN 0 ELSE 3

\* table('v_papers_needing_summaries').select('*'): the rows of the view
ViewRows == IF store_stub THEN StubRows ELSE pending

\* table('v_papers_needing_summaries').select('count', count='exact')
RemainingCount == IF store_stub THEN StubCount ELSE Len(pending)

\* whether a query of the store may raise: a scripted stub never does
QueryRaises == IF store_stub THEN {FALSE} ELSE BOOLEAN

\* ------------------------------------- exception handlers and retry decisions

\* generate_summaries_with_gemini, `if attempt < max_retries: continue` and
\* `return None`, as written after an empty response, after a parse failure
\* and in the except clause
RetryOrGiveUp(att) == IF att < MaxRetries THEN "retry" ELSE "none"

\* a retry decision that gives up one attempt early
RetryOrGiveUpEarly(att) == IF att + 1 < MaxRetries THEN "retry" ELSE "none"

\* a retry decision that never retries
NeverRetry(att) == "none"

\* if not response.text: retry while attempts remain, then return None
OnEmpty(att) == RetryOrGiveUp(att)

\* a parse failure that ends the invocation at once
GiveUpOnParseFailure(att) == "none"

\* summaries is None after parsing: retry while attempts remain, then None
OnParseFailure(att) == RetryOrGiveUp(att)

\* an except clause that lets the exception go once the attempts are used up
ReraiseAfterLastAttempt(att) == IF att < MaxRetries THEN "retry" ELSE "raise"

\* except Exception in generate_summaries_with_gemini
OnException(att) == RetryOrGiveUp(att)

\* a retry loop that gives the slot of a failed call back to the limiter
RefundFailedCall(reqs, response) ==
    IF response = "valid" \/ reqs = << >> THEN reqs
    ELSE SubSeq(reqs, 1, Len(reqs) - 1)

\* the limiter's window after the call of a pass: the retry loop uses the
\* limiter through wait_if_needed() only, whatever the call gave
WindowAfterCall(reqs, response) == reqs

\* a retry that goes straight to the next generate_content call
NextPassSkipsAdmission == "gen_call"

\* the next pass of `for attempt in range(max_retries + 1)` starts at the
\* top of the loop body, with rate_limiter.wait_if_needed()
NextPass == "gen_admit"

\* a loop body that saves whatever the invocation returned
SavesWhateverReturned(summ) == TRUE

\* `if summaries:` in the loop body
HasSummaries(summ) == summ = "ok"

\* a save that reports success whenever the insert did not raise
SaveReturnsTrueUnlessRaised(insert) == insert # "raise"

\* a save that reports success whatever became of the insert
SaveAlwaysReturnsTrue(insert) == TRUE

\* save_summary_to_database's return value after the insert:
\* `if response.data:` True, else False; False after an exception
SaveReturns(insert) == insert = "data"

\* parse_gemini_response, by the class of the response text
parse_gemini_response(text) == IF text = "valid" THEN "ok" ELSE "none"

\* a per-paper handler that lets the exception go
ItemExceptReraise == "raise"

\* the per-paper `except Exception: ... continue`
ItemExcept == "continue"

\* a batch handler that lets the exception go
BatchExceptReraise == "raise"

\* the batch's outer `except Exception: ... return 0`
BatchExcept == "return_zero"

\* download_pdf: text, or None when nothing was extracted or anything raised;
\* `if not pdf_text:` puts "" for None
download_pdf(outcome) == IF outcome = "text" THEN "text" ELSE ""

\* a loop body that gives the paper up when the PDF gave no text
AbandonedWithoutText(text) == text = ""

\* `if not pdf_text:` only warns: no paper is given up for want of PDF text
Abandoned(text) == FALSE

\* --------------------------------------------------------- control transfers

\* the control state an action hands on
Ctl == [pc |-> pc, idx |-> idx, processed_count |-> processed_count,
        batch_return |-> batch_return, exit_path |-> exit_path, escaped |-> escaped]

SetCtl(c) ==
    /\ pc' = c.pc
    /\ idx' = c.idx
    /\ processed_count' = c.processed_count
    /\ batch_return' = c.batch_return
    /\ exit_path' = c.exit_path
    /\ escaped' = c.escaped

\* an exception reaches the batch's outer try: return 0, and main goes on
\* with its checks; were it to leave the batch, main's except Exception ends
\* the run
AfterBatchRaise(c) ==
    IF BatchExcept = "return_zero"
    THEN [c EXCEPT !.pc = "main_check", !.batch_return = 0]
    ELSE [c EXCEPT !.pc = "exited", !.exit_path = "failed",
                   !.escaped = @ \cup {"batch"}]

\* the loop body for papers[idx] is over with processed_count = count: the
\* next paper, or after the last one `return processed_count`
AfterItem(c, count) ==
    IF c.idx < Len(papers)
    THEN [c EXCEPT !.pc = "item_begin", !.idx = @ + 1, !.processed_count = count]
    ELSE [c EXCEPT !.pc = "main_check", !.processed_count = count,
                   !.batch_return = count]

\* an exception reaches the per-paper try
AfterItemRaise(c) ==
    IF ItemExcept = "continue" THEN AfterItem(c, c.processed_count)
    ELSE AfterBatchRaise(c)

\* the invocation's own locals are dead once the loop body is over; what it
\* returned and the inserts tried stay until the next paper is taken up
EndInvocation ==
    /\ pdf_text' = "unset"
    /\ responses' = << >>
    /\ attempt' = 0
    /\ admissions' = 0
    /\ calls' = 0
    /\ UNCHANGED summaries

\* the loop body has not started for any paper of the batch
FreshBatch ==
    /\ pdf_text' = "unset"
    /\ responses' = << >>
    /\ attempt' = 0
    /\ admissions' = 0
    /\ calls' = 0
    /\ summaries' = "unset"
    /\ inserts' = << >>

\* a batch that builds a limiter of its own, with an empty window
FreshLimiterPerBatch(reqs) == << >>

\* the limiter a batch admits through: self.rate_limiter, built once in
\* ArxivETL.__init__, so the window of the batches before carries over
SharedLimiter(reqs) == reqs

\* the recorded timestamps that a window ending at `now` or later can hold
Recent(stamps, now) == SelectSeq(stamps, LAMBDA t : now - t < Window)

\* ------------------------------------------------------- Spec: a run of main

Init ==
    /\ clock = 0
    /\ LimiterInit(ScaledLimit)
    /\ pc = "main_start"
    /\ exit_path = "none"
    /\ gemini_enabled \in BOOLEAN
    /\ single_batch \in BOOLEAN
    /\ batch_size \in 1..MaxBatch
    /\ total_processed = 0
    /\ batch_num = 1
    /\ batch_start_time = 0
    /\ \E n \in 0..MaxItems : pending = [k \in 1..n |-> k]
    /\ sink = NoRows
    /\ papers = << >>
    /\ idx = 0
    /\ processed_count = 0
    /\ batch_return = 0
    /\ visited = << >>
    /\ escaped = {}
    /\ NoInvocation
    /\ interrupted = FALSE
    /\ batch_duration = 0
    /\ wait_time = 0
    /\ store_stub = FALSE
    /\ ThreadsIdle
    /\ NoParse
    /\ NoText

\* main up to the loop: the ArxivETL is built, the remaining count is read
\* (either may raise: main's except Exception returns 1)
MainStart ==
    /\ pc = "main_start"
    /\ UNCHANGED asideVars
    /\ \E raises \in QueryRaises :
        IF ~gemini_enabled
        THEN pc' = "exited" /\ exit_path' = "not_configured"
        ELSE IF raises
        THEN pc' = "exited" /\ exit_path' = "failed"
        ELSE IF RemainingCount = 0
        THEN pc' = "exited" /\ exit_path' = "nothing_to_do"
        ELSE pc' = "batch_start" /\ exit_path' = "none"
    /\ total_processed' = 0
    /\ batch_num' = 1
    /\ UNCHANGED <<limiterVars, gemini_enabled, single_batch, batch_size,
                   batch_start_time, storeVars, batchVars, genVars>>

\* the top of the while loop and the start of
\* process_papers_for_summarization: the pending-work query
BatchStart ==
    /\ pc = "batch_start"
    /\ UNCHANGED <<interrupted, store_stub, apartVars>>
    /\ batch_duration' = 0
    /\ wait_time' = 0
    /\ \E elapsed \in RunDelays, raises \in QueryRaises :
        LET rows == Limit(ViewRows, batch_size) IN
        /\ clock + elapsed <= MaxClock
        /\ clock' = clock + elapsed
        /\ batch_start_time' = clock + elapsed
        /\ visited' = << >>
        /\ IF raises
           THEN /\ SetCtl(AfterBatchRaise(Ctl))
                /\ papers' = << >>
           ELSE IF Len(rows) = 0
           THEN /\ SetCtl([Ctl EXCEPT !.pc = "main_check", !.batch_return = 0])
                /\ papers' = rows
           ELSE /\ SetCtl([Ctl EXCEPT !.pc = "item_begin", !.idx = 1,
                                      !.processed_count = 0])
                /\ papers' = rows
    /\ FreshBatch
    /\ requests_made' = SharedLimiter(requests_made)
    /\ UNCHANGED <<max_requests_per_minute, granted, last_wait,
                   gemini_enabled, single_batch, batch_size, total_processed,
                   batch_num, storeVars>>

\* the loop body up to the call of generate_summaries_with_gemini: the keys
\* of the row are read (a missing key raises KeyError) and the PDF is fetched
ItemBegin ==
    /\ pc = "item_begin"
    /\ UNCHANGED asideVars
    /\ visited' = Append(visited, papers[idx])
    /\ \E keys_ok \in BOOLEAN, fetched \in {"text", "nothing", "raise"} :
        IF ~keys_ok
        THEN /\ SetCtl(AfterItemRaise(Ctl))
             /\ pdf_text' = "unset"
        ELSE IF Abandoned(download_pdf(fetched))
        THEN /\ SetCtl(AfterItem(Ctl, processed_count))
             /\ pdf_text' = download_pdf(fetched)
        ELSE /\ SetCtl([Ctl EXCEPT !.pc = "gen_admit"])
             /\ pdf_text' = download_pdf(fetched)
    /\ responses' = << >>
    /\ attempt' = 0
    /\ admissions' = 0
    /\ calls' = 0
    /\ summaries' = "unset"
    /\ inserts' = << >>
    /\ UNCHANGED <<limiterVars, gemini_enabled, single_batch, batch_size,
                   total_processed, batch_num, batch_start_time, storeVars, papers>>

\* one pass of the retry loop up to the admission: rate_limiter.wait_if_needed()
GenAdmit ==
    /\ pc = "gen_admit"
    /\ UNCHANGED asideVars
    /\ \E elapsed \in RunDelays, over \in 0..MaxOversleep :
        /\ wait_if_needed(elapsed, over)
        /\ clock' <= MaxClock
    /\ granted' = Append(Recent(granted, clock'), clock')
    /\ admissions' = admissions + 1
    /\ pc' = "gen_call"
    /\ UNCHANGED <<mainVars, storeVars, batchVars, pdf_text, responses, attempt,
                   calls, summaries, inserts>>

\* the rest of the pass: generate_content, the empty check, the parse, and the
\* decision to return or to go round again
GenCall ==
    /\ pc = "gen_call"
    /\ UNCHANGED asideVars
    /\ calls' = calls + 1
    /\ \E response \in Responses :
        LET verdict == IF response = "raise" THEN OnException(attempt)
                       ELSE IF response = "empty" THEN OnEmpty(attempt)
                       ELSE IF parse_gemini_response(response) = "ok" THEN "ok"
                       ELSE OnParseFailure(attempt)
            \* `continue` on the last pass of range(max_retries + 1) falls out
            \* of the loop to the final `return None`
            result  == IF verdict = "retry" /\ attempt >= MaxRetries THEN "none"
                       ELSE verdict
        IN  /\ responses' = Append(responses, response)
            /\ requests_made' = WindowAfterCall(requests_made, response)
            /\ CASE result = "retry" ->
                      /\ attempt' = attempt + 1
                      /\ summaries' = "unset"
                      /\ SetCtl([Ctl EXCEPT !.pc = NextPass])
                 [] result = "ok" ->
                      /\ attempt' = attempt
                      /\ summaries' = "ok"
                      /\ SetCtl([Ctl EXCEPT !.pc = "item_save"])
                 [] result = "none" ->
                      /\ attempt' = attempt
                      /\ summaries' = "none"
                      /\ SetCtl([Ctl EXCEPT !.pc = "item_save"])
                 [] result = "raise" ->
                      /\ attempt' = attempt
                      /\ summaries' = "raised"
                      /\ SetCtl(AfterItemRaise([Ctl EXCEPT !.escaped = @ \cup {"generate"}]))
    /\ UNCHANGED <<clock, max_requests_per_minute, granted, last_wait,
                   gemini_enabled, single_batch, batch_size,
                   total_processed, batch_num, batch_start_time, storeVars,
                   papers, visited, pdf_text, admissions, inserts>>

\* `if summaries:` and save_summary_to_database's insert of the completed
\* row, which returns the row (True), returns nothing (False) or raises (the
\* error row is tried next); with no summaries the body only logs
ItemSave ==
    /\ pc = "item_save"
    /\ UNCHANGED asideVars
    /\ \E insert \in {"data", "no_data", "raise"} :
        IF ~HasSummaries(summaries)
        THEN /\ UNCHANGED <<storeVars, inserts>>
             /\ SetCtl(AfterItem(Ctl, processed_count))
             /\ EndInvocation
        ELSE /\ inserts' = Append(inserts, [row |-> "completed", did |-> insert])
             /\ IF insert = "data"
                THEN /\ sink' = Inserted(sink, papers[idx], "completed")
                     /\ pending' = Without(pending, papers[idx])
                ELSE UNCHANGED storeVars
             /\ IF insert = "raise"
                THEN /\ SetCtl([Ctl EXCEPT !.pc = "save_error"])
                     /\ UNCHANGED <<pdf_text, responses, attempt, admissions,
                                    calls, summaries>>
                ELSE /\ SetCtl(AfterItem(Ctl, IF SaveReturns(insert)
                                              THEN processed_count + 1
                                              ELSE processed_count))
                     /\ EndInvocation
    /\ UNCHANGED <<limiterVars, gemini_enabled, single_batch, batch_size,
                   total_processed, batch_num, batch_start_time, papers, visited>>

\* save_summary_to_database, the except clause: one insert of an error row,
\* whose own failure is swallowed; then return False
SaveError ==
    /\ pc = "save_error"
    /\ UNCHANGED asideVars
    /\ \E written \in BOOLEAN :
        /\ sink' = IF written THEN Inserted(sink, papers[idx], "error") ELSE sink
        /\ inserts' = Append(inserts, [row |-> "error",
                                       did |-> IF written THEN "data" ELSE "raise"])
    /\ SetCtl(AfterItem(Ctl, IF SaveReturns("raise") THEN processed_count + 1
                             ELSE processed_count))
    /\ EndInvocation
    /\ UNCHANGED <<limiterVars, gemini_enabled, single_batch, batch_size,
                   total_processed, batch_num, batch_start_time, pending,
                   papers, visited>>

\* a run that takes --single-batch for unset
IgnoresSingleBatch(single) == FALSE

\* `if args.single_batch:` after the two completion checks
StopsAfterOneBatch(single) == single

\* main after the batch: the running total, then the checks that end the loop
\* (the remaining-count query may raise: main's except Exception returns 1)
MainCheck ==
    /\ pc = "main_check"
    /\ UNCHANGED asideVars
    /\ total_processed' = total_processed + batch_return
    /\ \E raises \in QueryRaises :
        IF batch_return = 0
        THEN pc' = "exited" /\ exit_path' = "drained_no_success"
        ELSE IF raises
        THEN pc' = "exited" /\ exit_path' = "failed"
        ELSE IF RemainingCount = 0
        THEN pc' = "exited" /\ exit_path' = "drained_none_remaining"
        ELSE IF StopsAfterOneBatch(single_batch)
        THEN pc' = "exited" /\ exit_path' = "single_batch"
        ELSE pc' = "main_pace" /\ exit_path' = "none"
    /\ UNCHANGED <<limiterVars, gemini_enabled, single_batch, batch_size,
                   batch_num, batch_start_time, storeVars, papers, idx,
                   processed_count, batch_return, visited, escaped, genVars>>

\* a loop that goes on to the next batch without waiting
NoPacing(duration) == 0

\* wait_time = max(0, 60 - batch_duration)
WaitForInterval(duration) ==
    IF BatchInterval - duration > 0 THEN BatchInterval - duration ELSE 0

\* main's pacing: sleep what is left of the minute, then the next batch
\* (batch_duration and wait_time are dead once the next batch has started)
MainPace ==
    /\ pc = "main_pace"
    /\ UNCHANGED <<interrupted, store_stub, apartVars>>
    /\ \E elapsed \in RunDelays, over \in 0..MaxOversleep :
        LET batch_end_time == clock + elapsed
            duration       == batch_end_time - batch_start_time
            wait           == WaitForInterval(duration)
            woken          == IF wait > 0 THEN batch_end_time + wait + over
                              ELSE batch_end_time
        IN  /\ woken <= MaxClock
            /\ clock' = woken
            /\ batch_duration' = duration
            /\ wait_time' = wait
    /\ batch_num' = batch_num + 1
    /\ pc' = "batch_start"
    /\ UNCHANGED <<max_requests_per_minute, requests_made, granted, last_wait,
                   exit_path, gemini_enabled, single_batch, batch_size,
                   total_processed, batch_start_time, storeVars, batchVars, genVars>>

Next ==
    \/ MainStart
    \/ BatchStart
    \/ ItemBegin
    \/ GenAdmit
    \/ GenCall
    \/ ItemSave
    \/ SaveError
    \/ MainCheck
    \/ MainPace

Spec == Init /\ [][Next]_vars

\* ------------------------------------------- SpecInterrupt: Ctrl-C during a run

\* A KeyboardInterrupt that no handler on its way catches: every except clause
\* between the running statement and main is `except Exception`, which a
\* KeyboardInterrupt passes, so it reaches main's `except KeyboardInterrupt`.
\* The handler prints total_processed and returns 0; total_processed is bound
\* at line 57 only, and an interrupt that arrives earlier (while the ArxivETL
\* is built or the first count is read) makes the handler's print raise
\* UnboundLocalError.
InterruptStops ==
    /\ pc \notin {"exited", "no_run"}
    /\ interrupted' = TRUE
    /\ pc' = "exited"
    /\ \E bound \in BOOLEAN :
          exit_path' = IF pc = "main_start" /\ ~bound
                       THEN "interrupt_handler_failed" ELSE "interrupted"
    /\ UNCHANGED <<limiterVars, gemini_enabled, single_batch, batch_size,
                   total_processed, batch_num, batch_start_time, storeVars,
                   batchVars, genVars, paceVars, store_stub, apartVars>>

\* A KeyboardInterrupt delivered while save_summary_to_database inserts the
\* error row: the bare `except: pass` around that insert catches it, the
\* function returns False and the batch goes on with the next paper.
InterruptSwallowed ==
    /\ pc = "save_error"
    /\ interrupted' = TRUE
    /\ \E written \in BOOLEAN :
        /\ sink' = IF written THEN Inserted(sink, papers[idx], "error") ELSE sink
        /\ inserts' = Append(inserts, [row |-> "error",
                                       did |-> IF written THEN "data" ELSE "interrupt"])
    /\ SetCtl(AfterItem(Ctl, IF SaveReturns("raise") THEN processed_count + 1
                             ELSE processed_count))
    /\ EndInvocation
    /\ UNCHANGED <<limiterVars, gemini_enabled, single_batch, batch_size,
                   total_processed, batch_num, batch_start_time, pending,
                   papers, visited, paceVars, store_stub,
                   apartVars>>

\* ------------------------------ SpecDrain: a run against a scripted store

\* a continuous run whose store is a stub: the pending-work query returns
\* three papers and then none, the remaining-count check reports 0 after the
\* second batch
InitDrain ==
    /\ clock = 0
    /\ LimiterInit(ScaledLimit)
    /\ pc = "main_start"
    /\ exit_path = "none"
    /\ gemini_enabled = TRUE
    /\ single_batch = FALSE
    /\ batch_size \in 3..MaxBatch
    /\ total_processed = 0
    /\ batch_num = 1
    /\ batch_start_time = 0
    /\ pending = <<1, 2, 3>>
    /\ sink = NoRows
    /\ papers = << >>
    /\ idx = 0
    /\ processed_count = 0
    /\ batch_return = 0
    /\ visited = << >>
    /\ escaped = {}
    /\ NoInvocation
    /\ interrupted = FALSE
    /\ batch_duration = 0
    /\ wait_time = 0
    /\ store_stub = TRUE
    /\ ThreadsIdle
    /\ NoParse
    /\ NoText

SpecDrain == InitDrain /\ [][Next]_vars

NextInterrupt ==
    \/ Next
    \/ InterruptStops
    \/ InterruptSwallowed

SpecInterrupt == Init /\ [][NextInterrupt]_vars

\* the recorded timestamps in the 60-second window that ends at timestamp t:
\* those less than 60 seconds older than t
InWindow(t) == {k \in 1..Len(granted) : granted[k] <= t /\ t - granted[k] < Window}

\* C1: whatever the calls and their arrival times, no trailing 60-second
\* window (a timestamp exactly 60 seconds old has left it) holds more than
\* max_requests_per_minute recorded timestamps.  A window that ends between
\* two grants holds no more than the one that ends at the later of its grants.
C1_WindowNeverExceedsLimit ==
    \A j \in 1..Len(granted) :
        Cardinality(InWindow(granted[j])) <= max_requests_per_minute

\* C1 witness: a call found the window full, slept, and was then recorded,
\* leaving the window exactly full.
C1_Witness ==
    /\ last_wait > 0
    /\ Len(granted) > max_requests_per_minute
    /\ Cardinality(InWindow(granted[Len(granted)])) = max_requests_per_minute

\* ------------------------------------------------------------------ claims

\* the ways main leaves its loop announcing that all papers are completed
Drained == {"drained_no_success", "drained_none_remaining"}

\* C2: in continuous mode a batch that returns zero successes while papers
\* are still pending is followed by pacing and another batch: the loop does
\* not end as drained while the remaining count is above zero.
C2_ZeroSuccessBatchGoesOn ==
    ~(pc = "exited" /\ exit_path = "drained_no_success" /\ Len(pending) > 0)

\* the loop body has just ended for a paper of the running batch
BodyDone == pc \in {"item_begin", "main_check"} /\ visited # << >>

\* an insert of a row of the given kind was tried for the current paper
Tried(kind) == \E n \in 1..Len(inserts) : inserts[n].row = kind

C4_EveryItemVisitedOnceInOrder ==
    /\ pc = "item_begin" => visited = SubSeq(papers, 1, idx - 1)
    /\ pc \in {"gen_admit", "gen_call", "item_save", "save_error"} =>
          visited = SubSeq(papers, 1, idx)
    /\ pc = "main_check" => visited = papers

\* C4 witness: a batch of three papers returns with one success, the last
\* paper's: the two papers before it failed and the third was still processed.
C4_Witness ==
    /\ pc = "main_check"
    /\ Len(papers) >= 3
    /\ visited = papers
    /\ batch_return = 1
    /\ summaries = "ok"
    /\ inserts = <<[row |-> "completed", did |-> "data"]>>

\* the service has behaved so far as a stub that returns an empty response on
\* its first k calls and a valid one afterwards
EmptyThenValid(k) ==
    \A n \in 1..Len(responses) : responses[n] = (IF n <= k THEN "empty" ELSE "valid")

\* C5: when the service returns an empty response on the first k calls
\* (k <= max_retries) and a valid one afterwards, the invocation returns the
\* summaries after exactly k+1 admissions and exactly k+1 calls.
C5_SuccessAfterKEmptyResponses ==
    pc = "item_save" =>
        \A k \in 0..MaxRetries :
            EmptyThenValid(k) =>
                summaries = "ok" /\ calls = k + 1 /\ admissions = k + 1

\* C5 witness: the invocation has returned the summaries after max_retries
\* empty responses and a valid one.
C5_Witness ==
    /\ pc = "item_save"
    /\ responses = [n \in 1..(MaxRetries + 1) |->
                        IF n <= MaxRetries THEN "empty" ELSE "valid"]
    /\ summaries = "ok"
    /\ calls = MaxRetries + 1

\* every response of the invocation so far was empty
AlwaysEmpty == \A n \in 1..Len(responses) : responses[n] = "empty"

\* C6: when the service returns an empty response every time, the invocation
\* returns None after exactly max_retries+1 admitted calls.
C6_NoneAfterAllEmptyResponses ==
    (pc = "item_save" /\ AlwaysEmpty) =>
        /\ summaries = "none"
        /\ calls = MaxRetries + 1
        /\ admissions = MaxRetries + 1

\* C6 witness: the invocation has returned None after three empty responses.
C6_Witness ==
    /\ pc = "item_save"
    /\ AlwaysEmpty
    /\ Len(responses) = MaxRetries + 1
    /\ summaries = "none"

\* C7: every generate_content call, retries included, comes right after an
\* admission of its own: when a call is about to be issued there is exactly
\* one admission more than calls, its timestamp the newest of the limiter, and
\* at every other point the invocation has made as many admissions as calls.
C7_EveryCallHasItsOwnAdmission ==
    /\ pc = "gen_call" =>
          /\ admissions = calls + 1
          /\ requests_made # << >>
          /\ requests_made[Len(requests_made)] = clock
    /\ pc # "gen_call" => admissions = calls

\* C7 witness: an invocation that retried twice has returned, with three
\* admissions for its three calls.
C7_Witness ==
    /\ pc = "item_save"
    /\ calls = MaxRetries + 1
    /\ admissions = MaxRetries + 1

\* C8: no exception leaves generate_summaries_with_gemini: an exception of a
\* call is retried while attempts remain, and the invocation whose last call
\* raised has used all max_retries+1 attempts and returns None.
C8_GenerateNeverRaises ==
    /\ "generate" \notin escaped
    /\ summaries # "raised"
    /\ (pc = "item_save" /\ responses[Len(responses)] = "raise") =>
          summaries = "none" /\ Len(responses) = MaxRetries + 1

\* C8 witness: the service raised at every attempt and the invocation has
\* returned None.
C8_Witness ==
    /\ pc = "item_save"
    /\ responses = [n \in 1..(MaxRetries + 1) |-> "raise"]
    /\ summaries = "none"

\* where the run stands while process_papers_for_summarization is running
InBatch == {"batch_start", "item_begin", "gen_admit", "gen_call", "item_save", "save_error"}

\* C9: whatever fails in a batch, the batch is left only by returning a count
\* to main, which goes on with its drain checks: no exception leaves
\* process_papers_for_summarization.
C9_BatchAlwaysReturnsACount ==
    [][(pc \in InBatch /\ pc' \notin InBatch) =>
           /\ pc' = "main_check"
           /\ batch_return' \in 0..Len(papers')
           /\ "batch" \notin escaped']_vars

\* C9 witness: the pending-work query raised while papers were pending, and
\* main is at its checks with a count of 0.
C9_Witness ==
    /\ pc = "main_check"
    /\ papers = << >>
    /\ Len(pending) > 0
    /\ batch_return = 0

\* the papers of the batch that have a completed row
CompletedInBatch == {k \in 1..Len(papers) : sink[papers[k]].completed > 0}

RECURSIVE CompletedRows(_)
\* the completed rows of summary_papers for the papers of S
CompletedRows(S) ==
    IF S = {} THEN 0
    ELSE LET p == CHOOSE q \in S : TRUE
         IN  sink[p].completed + CompletedRows(S \ {p})

\* C10: the count a batch returns is the number of its papers whose completed
\* row was written (so the counts of the batches so far add up to the
\* completed rows of the run); it is at most the number of papers fetched,
\* which is at most the limit.
C10_ReturnCountsPersistedSuccesses ==
    pc = "main_check" =>
        /\ batch_return = Cardinality(CompletedInBatch)
        /\ total_processed + batch_return = CompletedRows(Items)
        /\ batch_return <= Len(papers)
        /\ Len(papers) <= batch_size

\* C10 witness: a batch of three papers returns 2: one paper failed.
C10_Witness ==
    /\ pc = "main_check"
    /\ Len(papers) >= 3
    /\ batch_return = 2
    /\ Cardinality(CompletedInBatch) = 2

\* C11: over a whole run, retries and all batches included, the calls issued
\* in any trailing 60-second window (each call is issued on its admission,
\* at the timestamp the limiter recorded for it) never number more than
\* max_requests_per_minute, also when the window reaches back into the batch
\* before.
C11_CallsPerWindowAcrossBatches ==
    /\ \A j \in 1..Len(granted) :
          Cardinality(InWindow(granted[j])) <= max_requests_per_minute
    /\ pc = "gen_call" =>
          /\ granted # << >>
          /\ granted[Len(granted)] = clock
          /\ Cardinality(InWindow(clock)) <= max_requests_per_minute

\* C11 witness: the first call of a later batch is about to be issued while
\* the window, full, still holds calls of the batch before.
C11_Witness ==
    /\ pc = "gen_call"
    /\ batch_num >= 2
    /\ idx = 1
    /\ admissions = 1
    /\ Len(granted) >= 2
    /\ Cardinality(InWindow(clock)) = max_requests_per_minute

\* C12: within one run no paper gets more than one completed row, over all
\* the batches of the run (the view drops a paper once its completed row
\* exists, and a batch visits each row it fetched once).
C12_AtMostOneCompletedRowPerPaper ==
    \A p \in Items : sink[p].completed <= 1

\* C12 witness: a later batch has written a completed row while a paper
\* completed by an earlier batch keeps its single row.
C12_Witness ==
    /\ batch_num >= 2
    /\ pc = "main_check"
    /\ batch_return >= 1
    /\ \E p \in Items :
          /\ sink[p].completed = 1
          /\ \A k \in 1..Len(papers) : papers[k] # p

\* C13: once a KeyboardInterrupt has been delivered the run has stopped: no
\* further paper is processed, no further batch is started, and main has
\* ended in its interrupt handler.
C13_InterruptStopsTheRun ==
    interrupted =>
        /\ pc = "exited"
        /\ exit_path \in {"interrupted", "interrupt_handler_failed"}

\* C14: when the run has been interrupted, the handler has reported a count,
\* and the count it reports (total_processed) is the number of completed
\* rows this run has written, those of the batch in progress included.
C14_InterruptReportsAllSuccesses ==
    (pc = "exited" /\ exit_path \in {"interrupted", "interrupt_handler_failed"}) =>
        /\ exit_path = "interrupted"
        /\ total_processed = CompletedRows(Items)

\* the pacing has just run and the next batch is about to start
Paced == pc = "batch_start" /\ batch_num > 1

\* C15: before another batch the loop sleeps max(0, 60 - batch_duration),
\* and nothing when the batch took 60 seconds or more; the sleep over, at
\* least 60 seconds have passed since the batch started, and the next batch
\* starts no less than 60 seconds after the one before.
C15_BatchStartsAMinuteApart ==
    /\ [](Paced =>
            /\ wait_time = (IF batch_duration < BatchInterval
                            THEN BatchInterval - batch_duration ELSE 0)
            /\ clock >= batch_start_time + batch_duration + wait_time
            /\ clock - batch_start_time >= BatchInterval)
    /\ [][Paced => batch_start_time' - batch_start_time >= BatchInterval]_vars

\* C15 witness: a batch that took more than a minute was followed by the
\* next batch with no sleep at all.
C15_Witness ==
    /\ Paced
    /\ batch_duration > BatchInterval
    /\ wait_time = 0
    /\ clock = batch_start_time + batch_duration

\* C16: in single-batch mode the loop body runs once: whatever the batch
\* returned and whatever the remaining count, main leaves after the first
\* batch (never reaching the pacing, so no pacing sleep and no second batch).
C16_SingleBatchRunsOneBatch ==
    single_batch =>
        /\ batch_num = 1
        /\ pc # "main_pace"
        /\ wait_time = 0
        /\ (pc = "exited" /\ batch_start_time > 0) =>
               exit_path \in {"drained_no_success", "drained_none_remaining",
                              "single_batch", "failed"}

\* C16 witness: a single-batch run has left after a first batch that had
\* successes, with papers still pending.
C16_Witness ==
    /\ single_batch
    /\ pc = "exited"
    /\ exit_path = "single_batch"
    /\ batch_num = 1
    /\ total_processed >= 1
    /\ Len(pending) >= 1

\* C17: against a source that returns three papers and then none, and a
\* remaining count that reports 0 after the second batch, the loop ends after
\* exactly two batches, whatever became of the papers of the first batch, and
\* does not sleep after the batch that ends it.
C17_DrainedAfterTwoBatches ==
    pc = "exited" =>
        /\ exit_path \in Drained
        /\ batch_num = 2

\* the positions of a thread between acquiring the lock and releasing it
InLimiter == {"prune", "sleep", "append"}

RECURSIVE IsSuffix(_, _)
\* whether sequence s is a suffix of sequence w
IsSuffix(s, w) ==
    IF Len(s) > Len(w) THEN FALSE
    ELSE IF Len(s) = Len(w) THEN s = w
    ELSE IsSuffix(s, Tail(w))

\* C18: with several threads on one limiter, a thread is between its prune
\* and its append only while it holds the lock, the sleep included, so no
\* other thread's step falls in between (requests_made is as the thread's
\* own latest step left it); no recorded timestamp is lost (requests_made
\* is the tail of the timestamps recorded, with every one still less than 60
\* seconds old); and the window bound holds.
C18_CallersAreSerialized ==
    /\ \A t \in Threads : tpc[t] \in InLimiter =>
          /\ lock = t
          /\ requests_made = tseen[t]
    /\ IsSuffix(requests_made, granted)
    /\ Len(requests_made) >= Len(Recent(granted, clock))
    /\ \A j \in 1..Len(granted) :
          Cardinality(InWindow(granted[j])) <= max_requests_per_minute

\* C18 witness: a thread sleeps inside the limiter, holding the lock, while
\* another thread waits for the lock.
C18_Witness ==
    \E t, u \in Threads :
        /\ tpc[t] = "sleep"
        /\ lock = t
        /\ tpc[u] = "acquire"
        /\ Len(requests_made) = max_requests_per_minute

\* C19: every call of wait_if_needed returns: a caller that has come to the
\* lock is admitted in the end (the lock being fair), after at most one
\* sleep of at most 60 seconds, and its return records exactly one new
\* timestamp, the caller's own.
C19_EveryCallerIsAdmitted ==
    /\ \A t \in Threads : (tpc[t] = "acquire") ~> (tpc[t] = "idle")
    /\ [](\A t \in Threads : twait[t] <= Window /\ tslept[t] <= 1)
    /\ [][\A t \in Threads :
            (tpc[t] # "idle" /\ tpc'[t] = "idle") =>
                /\ granted' = Append(granted, tnow[t])
                /\ requests_made' = Append(requests_made, tnow[t])]_vars

\* C19 witness: a caller that had to wait for the lock and then slept a
\* full 60 seconds is about to record its timestamp.
C19_Witness ==
    \E t \in Threads :
        /\ tpc[t] = "append"
        /\ tslept[t] = 1
        /\ twait[t] = Window
        /\ \E u \in Threads : u # t /\ tpc[u] = "acquire"

\* C20: parse_gemini_response returns None or a mapping that has all six
\* fields, each value stripped, non-empty and at least 10 characters long;
\* it returns no mapping with fewer fields and lets no exception out.
C20_ParseReturnsNoneOrSixValidFields ==
    /\ parse_result \in {"idle", "running", "none", "mapping"}
    /\ parse_result = "mapping" =>
          /\ Len(parsed) = Len(FieldNames)
          /\ \A k \in 1..Len(parsed) :
                /\ parsed[k].lead = 0
                /\ parsed[k].trail = 0
                /\ LenOf(parsed[k]) >= MinLength

\* C20 witness: a mapping has been returned in which one value is exactly 10
\* characters long (a capture that did not break the pattern loop but was
\* the last one matched) and another is longer.
C20_Witness ==
    /\ parse_result = "mapping"
    /\ \E k \in 1..Len(parsed) : LenOf(parsed[k]) = MinLength
    /\ \E k \in 1..Len(parsed) : LenOf(parsed[k]) > MinLength

\* the response text is the prompt's format itself: all six sections under
\* their headers, in order, parted by a blank line
Canonical ==
    /\ absent = 0
    /\ io_form = "header"
    /\ response_text = Render(1, bodies, 0, "header", <<"\n", "\n">>)

\* C21: for every response text in the canonical six-header format with six
\* distinct non-empty bodies, parse_gemini_response returns a mapping whose
\* six values are exactly those bodies, trimmed.
C21_CanonicalRoundTrip ==
    (returned \in {"none", "mapping"} /\ Canonical) =>
        /\ returned = "mapping"
        /\ \A f \in Fields : fields_out[f] = TStrip(bodies[f])

\* a body that passes the length rule of the final validation
WellFormed(f) == TLen(TStrip(bodies[f])) >= MinLength

\* a body of one line
SingleLine(body) == \A i \in 1..Len(body) : body[i] # "\n"

\* C22: for a response without the INTERMEDIATE_OVERVIEW header whose
\* intermediate-overview content stands between the BEGINNER_OVERVIEW and
\* BEGINNER_SUMMARY sections, all six contents being well-formed (at least 10
\* characters), parse_gemini_response returns a mapping, and its
\* intermediate_overview is non-empty text taken from that position: it ends
\* with the content, and it is exactly the content when the beginner overview
\* is one line.
C22_PositionalFallbackRecovers ==
    (/\ returned \in {"none", "mapping"}
     /\ io_form = "positional"
     /\ \A f \in Fields : WellFormed(f)) =>
        /\ returned = "mapping"
        /\ fields_out[4] # << >>
        /\ IsSuffix(TStrip(bodies[4]), fields_out[4])
        /\ SingleLine(bodies[3]) => fields_out[4] = TStrip(bodies[4])

\* C22 witness: the header was missing, the content of two lines stood in its
\* place, and the mapping returned holds it as intermediate_overview.
C22_Witness ==
    /\ returned = "mapping"
    /\ io_form = "positional"
    /\ bodies[4] = Body(4, "lines")
    /\ fields_out[4] = bodies[4]

\* no text stands where the third alternative pattern looks: nothing follows
\* the first line behind the BEGINNER_OVERVIEW header before the next section
NoPositionalContent == SingleLine(bodies[3])

\* C23: for every response in which one of the six fields is entirely absent
\* (its section is missing and, for intermediate_overview, no text stands at
\* the position the fallback looks at), parse_gemini_response returns None.
C23_AbsentFieldReturnsNone ==
    (/\ returned \in {"none", "mapping"}
     /\ absent \in Fields
     /\ absent = 4 => NoPositionalContent) =>
        returned = "none"

\* C23 witness: the intermediate-overview section was missing, nothing stood
\* in its place, the five other contents were well-formed, and None was
\* returned.
C23_Witness ==
    /\ returned = "none"
    /\ absent = 4
    /\ NoPositionalContent
    /\ \A f \in Fields \ {4} : WellFormed(f)

\* C24: a PDF that cannot be fetched or gives no text is never fatal for its
\* paper: whenever the text passed on is empty, the loop body is in or past
\* the call of generate_summaries_with_gemini with that empty text, and once
\* the invocation has returned it has made at least one admitted call.
C24_NoPdfTextIsNotFatal ==
    pdf_text = "" =>
        /\ pc \in {"gen_admit", "gen_call", "item_save", "save_error"}
        /\ pc \in {"item_save", "save_error"} => calls >= 1 /\ admissions = calls

\* C24 witness: for a paper whose PDF gave no text the invocation has returned
\* the summaries.
C24_Witness ==
    /\ pc = "item_save"
    /\ pdf_text = ""
    /\ summaries = "ok"

\* C25: when the insert of the completed row has raised,
\* save_summary_to_database tries exactly one insert of an error row; whether
\* or not that one fails, nothing is raised, the paper is not counted as a
\* success and stays pending, and the batch goes on with the next paper (or
\* returns its count after the last one).
C25_OneErrorWriteThenGoOn ==
    [][pc = "save_error" =>
          /\ inserts = <<[row |-> "completed", did |-> "raise"]>>
          /\ Len(inserts') = 2
          /\ inserts'[2].row = "error"
          /\ processed_count' = processed_count
          /\ pending' = pending
          /\ escaped' = escaped
          /\ exit_path' = exit_path
          /\ IF idx < Len(papers)
             THEN pc' = "item_begin" /\ idx' = idx + 1
             ELSE pc' = "main_check" /\ batch_return' = processed_count]_vars

\* C25 witness: both the completed row and the error row failed to be
\* written for a paper that is not the last of its batch, and the loop has
\* moved on to the next paper.
C25_Witness ==
    /\ pc = "item_begin"
    /\ idx > 1
    /\ inserts = <<[row |-> "completed", did |-> "raise"],
                   [row |-> "error", did |-> "raise"]>>

\* the pass that ends in this step got a response text that did not parse
ParseFailed ==
    /\ pc = "gen_call"
    /\ Len(responses') = Len(responses) + 1
    /\ responses'[Len(responses')] = "garbled"

\* C26: a parse failure is retried by a new call, never by parsing the same
\* text again: every response text of the invocation comes from a call of its
\* own and is parsed in the pass of that call only; after a parse failure with
\* attempts left the next pass starts at the admission, and only an admission
\* leads to the next call.
C26_ParseFailureRetriedByNewCall ==
    /\ [](Len(responses) = calls)
    /\ [][ParseFailed =>
             /\ calls' = calls + 1
             /\ IF attempt < MaxRetries
                THEN pc' = "gen_admit" /\ attempt' = attempt + 1
                ELSE summaries' = "none"]_vars
    /\ [][pc' = "gen_call" =>
             /\ pc = "gen_admit"
             /\ admissions' = admissions + 1
             /\ responses' = responses
             /\ calls' = calls]_vars

\* C26 witness: after a response that did not parse, the retry has been
\* admitted afresh and its call is about to be issued.
C26_Witness ==
    /\ pc = "gen_call"
    /\ responses # << >>
    /\ responses[Len(responses)] = "garbled"
    /\ admissions = calls + 1

\* a pass of the retry loop failed: no text, a text that did not parse, or
\* an exception
Failed(response) == response \in {"empty", "garbled", "raise"}

\* C27: empty responses, parse failures and exceptions share one budget of
\* attempts: an invocation issues at most max_retries+1 calls whatever the
\* mix, and once it has returned, it returned None exactly when it made
\* max_retries+1 calls that all failed; otherwise its last call gave the
\* summaries and all calls before it failed.
C27_OneBudgetForAllFailures ==
    /\ calls <= MaxRetries + 1
    /\ Len(responses) = calls
    /\ pc = "item_save" =>
          /\ summaries \in {"ok", "none"}
          /\ \A n \in 1..(calls - 1) : Failed(responses[n])
          /\ summaries = "none" <=>
                (calls = MaxRetries + 1 /\ \A n \in 1..calls : Failed(responses[n]))
          /\ summaries = "ok" => calls >= 1 /\ responses[calls] = "valid"

\* C27 witness: an invocation whose three calls failed in the three ways has
\* returned None.
C27_Witness ==
    /\ pc = "item_save"
    /\ responses = <<"empty", "garbled", "raise">>
    /\ summaries = "none"

\* C28: a field value is taken only from a match whose trimmed capture is
\* longer than 10 characters: no value of a returned mapping has 10
\* characters or fewer.
C28_ValuesAreLongerThanTen ==
    returned = "mapping" =>
        \A f \in Fields : TLen(fields_out[f]) > MinLength

\* C29: for a well-formed response (all six sections under their headers, all
\* contents of at least 10 characters) the intermediate_summary returned is
\* the whole text behind the INTERMEDIATE_SUMMARY header up to the end of the
\* response, trimmed, also when it has several paragraphs.
C29_LastFieldRunsToEndOfText ==
    (/\ returned \in {"none", "mapping"}
     /\ absent = 0
     /\ io_form = "header"
     /\ \A f \in Fields : WellFormed(f)) =>
        /\ returned = "mapping"
        /\ fields_out[6] = TStrip(bodies[6])

\* the words of the body of field f
WordsOf(f) == {ShortWord[f], TenWord[f], LongWord[f], MoreWord[f]}

\* the value holds nothing but text of the body of field f
OnlyOwnText(value, f) ==
    \A i \in 1..Len(value) :
        /\ value[i] \notin Headers
        /\ \A g \in Fields \ {f} : value[i] \notin WordsOf(g)

\* C30: whenever parse_gemini_response returns a mapping, no value holds the
\* header of a section or text of another field's body, also when the
\* INTERMEDIATE_OVERVIEW header is missing.
C30_NoValueHoldsAnotherSection ==
    returned = "mapping" =>
        \A f \in Fields : OnlyOwnText(fields_out[f], f)

\* the timestamps of the window that are less than 60 seconds old at `now`
StillYoung(reqs, now) == SelectSeq(reqs, LAMBDA t : now - t < Window)

\* C31: slots are never given back: a step that is not an admission leaves
\* the window as it is, whatever became of the admitted call (failed, empty,
\* unparseable, interrupted), and an admission keeps, in order, every
\* timestamp that is less than 60 seconds old at its end and adds its own.
C31_SlotsAreNeverRefunded ==
    [][IF pc = "gen_admit" /\ pc' = "gen_call"
       THEN requests_made' = Append(StillYoung(requests_made, clock'), clock')
       ELSE requests_made' = requests_made]_vars

\* C31 witness: the three calls of an invocation all failed, and the window
\* still holds the slot of the last one.
C31_Witness ==
    /\ pc = "item_save"
    /\ summaries = "none"
    /\ calls = MaxRetries + 1
    /\ requests_made # << >>
    /\ requests_made[Len(requests_made)] = clock

\* the ways the continuous loop ends with `return 0`, the interrupt aside
NormalExits == {"nothing_to_do", "drained_no_success", "drained_none_remaining"}

\* the batch that ended the loop with zero successes had found no pending
\* item (a batch that finds items is assumed to yield at least one success)
LastBatchFoundNothing == exit_path = "drained_no_success" => papers = << >>

\* C32: with a finite backlog, a pending-work source that drops a paper once
\* its completed row is written, and every batch that finds pending items
\* yielding at least one success, the continuous loop terminates, and when it
\* has terminated normally the remaining count of pending papers is zero.
C32_NormalExitMeansDrained ==
    (/\ pc = "exited"
     /\ ~single_batch
     /\ exit_path \in NormalExits
     /\ LastBatchFoundNothing) =>
        RemainingCount = 0

\* the ways main leaves the loop by `break` and prints its final report
LoopExits == {"drained_no_success", "drained_none_remaining", "single_batch"}

\* "Total batches: {batch_num - 1}" of the final report
ReportedBatches == batch_num - 1

\* the batches started so far: batch_num is 1 while the first batch runs and
\* is raised by one after the pacing, before each later batch
BatchesRun == batch_num

\* C33: at normal termination the total reported, total_processed, is the sum
\* of the counts the batches returned (the completed rows the run has
\* written), and the number of batches reported is the number of batches
\* actually run.
C33_ReportGivesTotalAndBatches ==
    (pc = "exited" /\ exit_path \in LoopExits) =>
        /\ total_processed = CompletedRows(Items)
        /\ ReportedBatches = BatchesRun

\* the step is a call of wait_if_needed that slept: the window pruned at the
\* first clock read `now` was at or above the limit, the wait computed from
\* its oldest timestamp is the one slept, and that timestamp is no longer in
\* the window at the second clock read
SleptOffTheOldest ==
    \E over \in 0..MaxOversleep :
        LET now    == clock' - last_wait' - over
            pruned == StillYoung(requests_made, now)
        IN  /\ now >= clock
            /\ Len(pruned) >= max_requests_per_minute
            /\ last_wait' = Window - (now - MinOf(pruned))
            /\ clock' - MinOf(pruned) >= Window
            /\ Len(StillYoung(requests_made, clock')) < Len(pruned)

\* C34: with a clock that never goes back, a call of wait_if_needed that
\* finds the pruned window at or above the limit computes a wait above 0 and
\* of at most 60 seconds and sleeps, so a call that did not sleep found the
\* window below the limit; after the sleep the second pruning drops at least
\* the oldest timestamp, and the append never takes the window above the
\* limit.
C34_FullWindowAlwaysSleeps ==
    [][granted' # granted =>
          /\ clock' >= clock
          /\ last_wait' \in 0..Window
          /\ Len(requests_made') <= max_requests_per_minute
          /\ IF last_wait' = 0
             THEN Len(StillYoung(requests_made, clock')) < max_requests_per_minute
             ELSE SleptOffTheOldest]_vars

\* C34 witness: a call found the window full of timestamps of that very
\* second, slept the full 60 seconds, and was recorded without taking the
\* window above the limit.
C34_Witness ==
    /\ last_wait = Window
    /\ max_requests_per_minute >= 2
    /\ Len(granted) > max_requests_per_minute
    /\ Len(requests_made) <= max_requests_per_minute

\* C35: once wait_if_needed has returned, requests_made holds at least one
\* and at most max_requests_per_minute timestamps, in non-decreasing order,
\* each less than 60 seconds older than the newest, which is the timestamp
\* of the latest call; before the first call the list is empty.
C35_WindowIsWellFormed ==
    IF granted = << >> THEN requests_made = << >>
    ELSE /\ Len(requests_made) \in 1..max_requests_per_minute
         /\ \A i, j \in 1..Len(requests_made) :
                i < j => requests_made[i] <= requests_made[j]
         /\ \A n \in 1..Len(requests_made) :
                requests_made[Len(requests_made)] - requests_made[n] < Window
         /\ requests_made[Len(requests_made)] = granted[Len(granted)]

\* C35 witness: after a call that dropped an old timestamp the list is full,
\* and its oldest timestamp is 59 seconds older than its newest.
C35_Witness ==
    /\ Len(granted) > Len(requests_made)
    /\ Len(requests_made) = max_requests_per_minute
    /\ max_requests_per_minute >= 2
    /\ requests_made[Len(requests_made)] - requests_made[1] = Window - 1

====
